---- MODULE Spec2Model ----
(***************************************************************************)
(* Model of the tree engine (NewTree, NewTreeFromInput, Print, DataSize,   *)
(* ParseData, Checkout) and of the cat-file command (Init, Execute).       *)
(* Text and binary payloads are sequences of byte values (0..255), so that *)
(* splitting, trimming, hex coding and parsing act on bytes as in the code.*)
(***************************************************************************)
EXTENDS Integers, Sequences, FiniteSets, TLC

\* ------------------------------------------------------------------------
\* Bytes and text
\* ------------------------------------------------------------------------
Chars == <<"nul", "tab", "nl", " ", "+", "-", "=",
           "0", "1", "2", "3", "4", "5", "6", "7", "8", "9",
           "A", "B", "C", "D", "E", "F", "H", "L", "R", "S", "T", "U", "W",
           "a", "b", "c", "d", "e", "f", "g", "h", "i", "j", "k", "l", "m",
           "n", "o", "p", "q", "r", "s", "t", "u", "v", "w", "x", "y", "z">>
Codes == <<0, 9, 10, 32, 43, 45, 61,
           48, 49, 50, 51, 52, 53, 54, 55, 56, 57,
           65, 66, 67, 68, 69, 70, 72, 76, 82, 83, 84, 85, 87,
           97, 98, 99, 100, 101, 102, 103, 104, 105, 106, 107, 108, 109,
           110, 111, 112, 113, 114, 115, 116, 117, 118, 119, 120, 121, 122>>

Ord(c) == Codes[CHOOSE i \in 1..Len(Chars) : Chars[i] = c]

\* The byte string of a text literal given as a tuple of characters.
Str(t) == [i \in 1..Len(t) |-> Ord(t[i])]

Rep(s, n) == [i \in 1..(n * Len(s)) |-> s[((i - 1) % Len(s)) + 1]]

SP == 32
NUL == 0
NL == 10
TAB == 9
ZERO == 48

\* s[from..to] with Go's half-open 0-based slice s[from:to].
Slice(s, from, to) == [i \in 1..(to - from) |-> s[from + i]]

\* bytes.IndexByte / strings.IndexByte: 0-based index of the first c, or -1.
IndexByte(s, c) ==
    IF \E i \in 1..Len(s) : s[i] = c
    THEN (CHOOSE i \in 1..Len(s) : s[i] = c /\ \A j \in 1..(i - 1) : s[j] # c) - 1
    ELSE -1

\* Go's string comparison a < b: byte-wise lexicographic.
StrLess(a, b) ==
    \/ /\ Len(a) < Len(b)
       /\ \A i \in 1..Len(a) : a[i] = b[i]
    \/ \E i \in 1..Len(a) :
          /\ i <= Len(b)
          /\ a[i] < b[i]
          /\ \A j \in 1..(i - 1) : a[j] = b[j]

RECURSIVE Split(_, _)
\* strings.Split(s, sep) for a one-byte separator.
Split(s, sep) ==
    LET k == IndexByte(s, sep) IN
    IF k = -1 THEN <<s>>
    ELSE <<Slice(s, 0, k)>> \o Split(Slice(s, k + 1, Len(s)), sep)

\* unicode.IsSpace on the ASCII range.
IsSpace(b) == b \in {9, 10, 11, 12, 13, 32}

RECURSIVE Fields(_)
\* strings.Fields: the maximal runs of non-space bytes.
Fields(s) ==
    IF Len(s) = 0 THEN <<>>
    ELSE IF IsSpace(s[1]) THEN Fields(Tail(s))
    ELSE LET stops == {i \in 1..Len(s) : IsSpace(s[i])}
             e == IF stops = {} THEN Len(s) + 1
                  ELSE CHOOSE i \in stops : \A j \in stops : i <= j
         IN <<Slice(s, 0, e - 1)>> \o Fields(Slice(s, e - 1, Len(s)))

RECURSIVE TrimLeft(_, _)
\* strings.TrimLeft(s, cutset) for a one-byte cutset.
TrimLeft(s, c) ==
    IF Len(s) > 0 /\ s[1] = c THEN TrimLeft(Tail(s), c) ELSE s

\* strings.Repeat(s, n) for n >= 0.
Repeat(s, n) == Rep(s, n)

RECURSIVE Concat(_)
Concat(ss) == IF Len(ss) = 0 THEN <<>> ELSE Head(ss) \o Concat(Tail(ss))

\* ------------------------------------------------------------------------
\* encoding/hex
\* ------------------------------------------------------------------------
IsHexDigit(b) == b \in (48..57) \cup (97..102) \cup (65..70)

HexVal(b) == IF b \in 48..57 THEN b - 48
             ELSE IF b \in 97..102 THEN b - 87
             ELSE b - 55

HexDigit(v) == IF v < 10 THEN 48 + v ELSE 87 + v

\* hex.DecodeString: an error for an odd length or a non-hex byte.
DecodeString(s) ==
    IF Len(s) % 2 = 1 \/ \E i \in 1..Len(s) : ~IsHexDigit(s[i])
    THEN [err |-> TRUE, bytes |-> <<>>]
    ELSE [err |-> FALSE,
          bytes |-> [i \in 1..(Len(s) \div 2) |->
                        16 * HexVal(s[2 * i - 1]) + HexVal(s[2 * i])]]

\* hex.EncodeToString: two lowercase hex digits per byte.
EncodeToString(bs) ==
    [i \in 1..(2 * Len(bs)) |->
        IF i % 2 = 1 THEN HexDigit(bs[(i + 1) \div 2] \div 16)
        ELSE HexDigit(bs[i \div 2] % 16)]

\* ------------------------------------------------------------------------
\* Objects and the object store
\* ------------------------------------------------------------------------
BLOB == Str(<<"b", "l", "o", "b">>)
TREE == Str(<<"t", "r", "e", "e">>)
COMMIT == Str(<<"c", "o", "m", "m", "i", "t">>)

NoErr == "nil"
ErrBadMode == "Malformed object: bad mode"
ErrBadType == "Malformed object: bad type"
ErrNotFound == "NotFound"
ErrHex == "encoding/hex: invalid input"

\* Length in bytes of an entry's hash inside a tree payload.
HashLen == 20

NewObject(objType, data) == [ObjType |-> objType, ObjData |-> data]

\* repo.ObjectParse: the object stored at an address, or an error.
ObjectParse(st, hash) ==
    IF hash \in DOMAIN st THEN [err |-> NoErr, obj |-> <<st[hash]>>]
    ELSE [err |-> ErrNotFound, obj |-> <<>>]

\* ------------------------------------------------------------------------
\* GitTree
\* ------------------------------------------------------------------------
TreeEntry(mode, hash, objType, name) ==
    [mode |-> mode, hash |-> hash, objType |-> objType, name |-> name]

GitTree(obj, entries) == [Obj |-> obj, Entries |-> entries]

\* The entries left in the order of the payload.
SortByNameSkipped(es) == es

RECURSIVE SortByName(_)
\* sort.Slice by name; for these lengths Go sorts by insertion, which keeps
\* entries of equal name in their order.
SortByName(es) ==
    IF Len(es) <= 1 THEN es
    ELSE LET n == Len(es)
             front == SortByName(SubSeq(es, 1, n - 1))
             x == es[n]
             keep == {i \in 1..(n - 1) : ~StrLess(x.name, front[i].name)}
             k == Cardinality(keep)
         IN SubSeq(front, 1, k) \o <<x>> \o SubSeq(front, k + 1, n - 1)

\* The test of the mode with "or" for "and": no length fails it.
ModeRejectedNever(entryMode) == Len(entryMode) < 5 /\ Len(entryMode) > 6

\* The test ParseData makes of the length of a mode text.
ModeRejected(entryMode) == Len(entryMode) # 5 /\ Len(entryMode) # 6

\* The cursor moved over the name and the hash but not over the NUL.
NextStartShort(start, nameInd) == start + (nameInd + HashLen)

\* The cursor after an entry whose NUL is at nameInd.
NextStart(start, nameInd) == start + (nameInd + 1 + HashLen)

\* The body of ParseData's loop at cursor start: the entry read and the
\* next cursor, an error, or a panic of the runtime.
ParseIter(st, objData, start) ==
    LET data == Slice(objData, start, Len(objData))
        spaceInd == IndexByte(data, SP)
        nameInd == IndexByte(data, NUL)
    IN  IF spaceInd = -1 THEN [kind |-> "panic"]
        ELSE LET entryMode == Slice(data, 0, spaceInd) IN
        IF ModeRejected(entryMode)
        THEN [kind |-> "err", err |-> ErrBadMode]
        ELSE IF nameInd < spaceInd + 1 \/ nameInd + 1 + HashLen > Len(data)
        THEN [kind |-> "panic"]
        ELSE LET entryName == Slice(data, spaceInd + 1, nameInd)
                 entryHash == EncodeToString(
                                 Slice(data, nameInd + 1, nameInd + 1 + HashLen))
                 r == ObjectParse(st, entryHash)
             IN IF r.err # NoErr THEN [kind |-> "err", err |-> r.err]
                ELSE [kind |-> "ok",
                      entry |-> TreeEntry(entryMode, entryHash,
                                          r.obj[1].ObjType, entryName),
                      start |-> NextStart(start, nameInd)]

RECURSIVE ParseLoop(_, _, _, _)
ParseLoop(st, objData, start, entries) ==
    IF ~(start < Len(objData))
    THEN [kind |-> "ok", Entries |-> SortByName(entries)]
    ELSE LET it == ParseIter(st, objData, start) IN
         IF it.kind # "ok" THEN it
         ELSE ParseLoop(st, objData, it.start, Append(entries, it.entry))

\* tree.ParseData as one call.
ParseData(st, obj) == ParseLoop(st, obj.ObjData, 0, <<>>)

\* NewTree: the tree of a stored object, an error, or a panic.
NewTree(st, obj) ==
    IF obj.ObjType # TREE THEN [kind |-> "err", err |-> ErrBadType]
    ELSE LET r == ParseData(st, obj) IN
         IF r.kind = "ok"
         THEN [kind |-> "ok", tree |-> GitTree(obj, r.Entries)]
         ELSE r

RECURSIVE BuildData(_, _)
\* The loop of NewTreeFromInput over the lines of the input.
BuildData(entries, data) ==
    IF Len(entries) = 0 THEN [kind |-> "ok", data |-> data]
    ELSE LET entry == Head(entries)
             props == Fields(entry)
         IN  IF Len(entry) = 0 THEN BuildData(Tail(entries), data)
             ELSE IF Len(props) < 4 THEN [kind |-> "panic"]
             ELSE LET mode == TrimLeft(props[1], ZERO)
                      byteHash == DecodeString(props[3])
                  IN IF byteHash.err THEN [kind |-> "err", err |-> ErrHex]
                     ELSE BuildData(Tail(entries),
                              data \o mode \o <<SP>> \o props[4] \o <<NUL>>
                                   \o byteHash.bytes)

\* The object NewTreeFromInput hands to NewTree.
TreeObjectFromInput(input) ==
    LET r == BuildData(Split(input, NL), <<>>) IN
    IF r.kind = "ok" THEN [kind |-> "ok", obj |-> NewObject(TREE, r.data)]
    ELSE r

Type(tree) == TREE

TreePrintEntry(entry) ==
    LET entryMode == Repeat(<<ZERO>>, 6 - Len(entry.mode)) \o entry.mode IN
    entryMode \o <<SP>> \o entry.objType \o <<SP>> \o entry.hash
              \o <<TAB>> \o entry.name \o <<NL>>

\* tree.Print (the name Print belongs to a standard module).
TreePrint(tree) ==
    Concat([i \in 1..Len(tree.Entries) |-> TreePrintEntry(tree.Entries[i])])

\* The size taken of the printed text.
DataSizeOfText(tree) == Len(TreePrint(tree))

DataSize(tree) == Len(tree.Obj.ObjData)

\* ------------------------------------------------------------------------
\* A repository: blobs, a commit and trees already in the store
\* ------------------------------------------------------------------------
HashB1 == Str(<<"5", "5", "7", "d", "b", "0", "3", "d", "e", "9", "9", "7",
              "c", "8", "6", "a", "4", "a", "0", "2", "8", "e", "1", "e", "b",
              "d", "3", "a", "1", "c", "e", "b", "2", "2", "5", "b", "e", "2",
              "3", "8">>)
HashB1Upper == Str(<<"5", "5", "7", "D", "B", "0", "3", "D", "E", "9", "9", "7",
                   "C", "8", "6", "A", "4", "A", "0", "2", "8", "E", "1", "E", "B",
                   "D", "3", "A", "1", "C", "E", "B", "2", "2", "5", "B", "E", "2",
                   "3", "8">>)
HashB2 == Str(<<"2", "0", "0", "0", "2", "0", "0", "a", "0", "9">>)
             \o Rep(Str(<<"a", "b">>), 15)
HashC1 == Rep(Str(<<"c", "0">>), 20)
HashMissing == Rep(Str(<<"f", "f">>), 20)
HashT1 == Str(<<"0", "0", "2", "0">>) \o Rep(Str(<<"c", "1">>), 18)
HashNew == Str(<<"e", "5", "9", "2", "d", "f", "e", "7", "9", "1", "d", "d",
               "1", "e", "1", "c", "f", "2", "0", "2", "6", "6", "8", "7", "0",
               "7", "a", "5", "c", "f", "a", "c", "0", "7", "a", "6", "3", "5",
               "b", "3">>)

DataB1 == Str(<<"H", "e", "l", "l", "o", " ", "W", "o", "r", "l", "d", "nl">>)
DataB2 == Str(<<"x">>)
DataC1 == Str(<<"t", "r", "e", "e", " ">>) \o HashT1 \o <<NL>>

Mode100644 == Str(<<"1", "0", "0", "6", "4", "4">>)
Mode100755 == Str(<<"1", "0", "0", "7", "5", "5">>)
Mode040000 == Str(<<"0", "4", "0", "0", "0", "0">>)

\* One line of a tree specification: "<mode> <kind> <hash>\t<name>\n".
Line(mode, kind, hash, name) ==
    mode \o <<SP>> \o kind \o <<SP>> \o hash \o <<TAB>> \o name \o <<NL>>

\* The payload NewTreeFromInput builds for a text (for stored trees).
Payload(text) == BuildData(Split(text, NL), <<>>).data

TextT1 == Line(Mode100644, BLOB, HashB1, Str(<<"f">>))

BaseStore ==
    [h \in {HashB1, HashB2, HashC1, HashT1} |->
        IF h = HashB1 THEN NewObject(BLOB, DataB1)
        ELSE IF h = HashB2 THEN NewObject(BLOB, DataB2)
        ELSE IF h = HashC1 THEN NewObject(COMMIT, DataC1)
        ELSE NewObject(TREE, Payload(TextT1))]

\* ------------------------------------------------------------------------
\* Inputs of NewTreeFromInput
\* ------------------------------------------------------------------------
MaxLines == 2

\* A line of the input as its four parts; blank is the empty line.
LineSpec(mode, kind, hash, name) ==
    [blank |-> FALSE, mode |-> mode, kind |-> kind, hash |-> hash,
     name |-> name]

BlankLine ==
    [blank |-> TRUE, mode |-> <<>>, kind |-> <<>>, hash |-> <<>>,
     name |-> <<>>]

LineSpecs ==
    { LineSpec(Mode100644, BLOB, HashB1,
               Str(<<"t", "e", "s", "t", "f", "i", "l", "e">>)),
      LineSpec(Mode100755, BLOB, HashB2, Str(<<"a">>)),
      LineSpec(Mode040000, TREE, HashT1, Str(<<"d">>)),
      LineSpec(Mode100644, BLOB, HashB1, Str(<<"a", " ", "b">>)),
      LineSpec(Str(<<"0", "0", "0", "6", "4", "4">>), BLOB, HashB1,
               Str(<<"z">>)),
      LineSpec(Mode100644, BLOB, HashMissing, Str(<<"m">>)),
      LineSpec(Mode100644, TREE, HashB2, Str(<<"k">>)),
      LineSpec(Mode100644, BLOB, HashB1Upper, Str(<<"u">>)),
      LineSpec(Str(<<"1", "0", "0", "6", "4", "4", "0">>), BLOB, HashB1,
               Str(<<"y">>)),
      LineSpec(Str(<<"4", "0", "0", "0", "0">>), TREE, HashT1, Str(<<"e">>)),
      LineSpec(Mode100644, BLOB, HashB1, <<>>),
      LineSpec(Mode100644, BLOB, Str(<<"x", "y", "z">>), Str(<<"n">>)),
      BlankLine }

LineText(l) ==
    IF l.blank THEN <<NL>> ELSE Line(l.mode, l.kind, l.hash, l.name)

\* The text of a sequence of lines.
Text(ls) == Concat([i \in 1..Len(ls) |-> LineText(ls[i])])

LineSeqs == UNION {[1..n -> LineSpecs] : n \in 0..MaxLines}

Origins == {"input", "store"}

VARIABLES
    pc,         \* position of the running program
    store,      \* the object store: address -> object
    \* NewTreeFromInput, ParseData and the accessors
    lines,      \* the lines of the text specification
    input,      \* the text specification handed to NewTreeFromInput
    obj,        \* the object being parsed (empty: none)
    start,      \* the cursor of ParseData
    Entries,    \* tree.Entries while ParseData runs
    origin,     \* where the current object comes from: input or store
    trees,      \* the tree returned for each origin (empty: none)
    err,        \* the error returned
    treeHash,   \* the address ObjectWrite returned (empty: not written)
    out,        \* what Print returned for each origin
    sizes,      \* what DataSize returned for each origin
    \* Checkout
    root,       \* the address of the tree being checked out
    stack,      \* the active calls of Checkout, innermost last
    fs,         \* the filesystem: path -> node
    retErr,     \* the error returned by the last call of Checkout
    lastWrite,  \* the arguments of the last call of ioutil.WriteFile
    \* cat-file
    args,       \* the command line
    cmd,        \* the CatFileCommand
    initErr,    \* what Init returned
    stdout      \* what Execute printed

treeVars == <<lines, input, obj, start, Entries, origin, trees, err,
              treeHash, out, sizes>>
coVars == <<root, stack, fs, retErr, lastWrite>>
catVars == <<args, cmd, initErr, stdout>>

vars == <<pc, store, treeVars, coVars, catVars>>

\* NewCatFileCommand: no revision, the three flags at their default.
NewCatFileCommand ==
    [revision |-> <<>>, getType |-> FALSE, getSize |-> FALSE,
     printObj |-> FALSE]

\* The parts of the state a program does not use stay as they start.
TreeIdle ==
    /\ lines = <<>>
    /\ input = <<>>
    /\ obj = <<>>
    /\ start = 0
    /\ Entries = <<>>
    /\ origin = "input"
    /\ trees = [o \in Origins |-> <<>>]
    /\ err = NoErr
    /\ treeHash = <<>>
    /\ out = [o \in Origins |-> <<>>]
    /\ sizes = [o \in Origins |-> <<>>]

CheckoutIdle ==
    /\ root = <<>>
    /\ stack = <<>>
    /\ fs = <<>>
    /\ retErr = NoErr
    /\ lastWrite = <<>>

CatFileIdle ==
    /\ args = <<>>
    /\ cmd = NewCatFileCommand
    /\ initErr = NoErr
    /\ stdout = <<>>

\* The program of the tests: build a tree from text, print it, size it,
\* write it, read it back.
Init ==
    /\ pc = "start"
    /\ store = BaseStore
    /\ lines \in LineSeqs
    /\ input = Text(lines)
    /\ obj = <<>>
    /\ start = 0
    /\ Entries = <<>>
    /\ origin = "input"
    /\ trees = [o \in Origins |-> <<>>]
    /\ err = NoErr
    /\ treeHash = <<>>
    /\ out = [o \in Origins |-> <<>>]
    /\ sizes = [o \in Origins |-> <<>>]
    /\ CheckoutIdle
    /\ CatFileIdle

\* NewTreeFromInput up to its call of NewTree, whose ParseData loop follows.
NewTreeFromInputAct ==
    /\ pc = "start"
    /\ LET r == TreeObjectFromInput(input) IN
       /\ pc' = IF r.kind = "panic" THEN "panic"
                ELSE IF r.kind = "err" THEN "done"
                ELSE IF r.obj.ObjType # TREE THEN "done" ELSE "parse"
       /\ err' = IF r.kind = "err" THEN r.err
                 ELSE IF r.kind = "ok" /\ r.obj.ObjType # TREE THEN ErrBadType
                 ELSE err
       /\ obj' = IF r.kind = "ok" THEN <<r.obj>> ELSE obj
    /\ UNCHANGED <<store, lines, input, start, Entries, origin, trees, treeHash,
                   out, sizes, coVars, catVars>>

\* One iteration of the loop of ParseData.
ParseDataIter ==
    /\ pc = "parse"
    /\ start < Len(obj[1].ObjData)
    /\ LET it == ParseIter(store, obj[1].ObjData, start) IN
       /\ pc' = IF it.kind = "panic" THEN "panic"
                ELSE IF it.kind = "err" THEN "done" ELSE "parse"
       /\ err' = IF it.kind = "err" THEN it.err ELSE err
       /\ Entries' = IF it.kind = "ok" THEN Append(Entries, it.entry)
                     ELSE Entries
       /\ start' = IF it.kind = "ok" THEN it.start ELSE start
    /\ UNCHANGED <<store, lines, input, obj, origin, trees, treeHash, out, sizes, coVars, catVars>>

\* The loop of ParseData has ended: sort the entries and return the tree.
ParseDataSort ==
    /\ pc = "parse"
    /\ ~(start < Len(obj[1].ObjData))
    /\ Entries' = SortByName(Entries)
    /\ trees' = [trees EXCEPT ![origin] = <<GitTree(obj[1], Entries')>>]
    /\ pc' = "ready"
    /\ UNCHANGED <<store, lines, input, obj, start, origin, err, treeHash, out,
                   sizes, coVars, catVars>>

PrintAct ==
    /\ pc = "ready"
    /\ out[origin] = <<>>
    /\ out' = [out EXCEPT ![origin] = <<TreePrint(trees[origin][1])>>]
    /\ UNCHANGED <<pc, store, lines, input, obj, start, Entries, origin, trees, err,
                   treeHash, sizes, coVars, catVars>>

DataSizeAct ==
    /\ pc = "ready"
    /\ sizes[origin] = <<>>
    /\ sizes' = [sizes EXCEPT ![origin] = <<DataSize(trees[origin][1])>>]
    /\ UNCHANGED <<pc, store, lines, input, obj, start, Entries, origin, trees, err,
                   treeHash, out, coVars, catVars>>

\* The address the store gives an object: that of an equal stored object,
\* else a new one (a content hash, not computed here).
AddressOf(st, o) ==
    IF \E h \in DOMAIN st : st[h] = o
    THEN CHOOSE h \in DOMAIN st : st[h] = o
    ELSE HashNew

\* repo.ObjectWrite of the tree built from the input.
ObjectWriteAct ==
    /\ pc = "ready"
    /\ origin = "input"
    /\ treeHash = <<>>
    /\ LET o == trees[origin][1].Obj
           h == AddressOf(store, o)
       IN /\ store' = [a \in DOMAIN store \cup {h} |->
                          IF a = h THEN o ELSE store[a]]
          /\ treeHash' = <<h>>
    /\ UNCHANGED <<pc, lines, input, obj, start, Entries, origin, trees, err, out,
                   sizes, coVars, catVars>>

\* repo.ObjectParse of the written tree and NewTree of it, up to ParseData.
NewTreeAct ==
    /\ pc = "ready"
    /\ origin = "input"
    /\ treeHash # <<>>
    /\ LET r == ObjectParse(store, treeHash[1]) IN
       /\ obj' = r.obj
       /\ pc' = IF r.err # NoErr \/ r.obj[1].ObjType # TREE THEN "done"
                ELSE "parse"
       /\ err' = IF r.err # NoErr THEN r.err
                 ELSE IF r.obj[1].ObjType # TREE THEN ErrBadType ELSE err
    /\ origin' = "store"
    /\ start' = 0
    /\ Entries' = <<>>
    /\ UNCHANGED <<store, lines, input, trees, treeHash, out, sizes, coVars, catVars>>

Next ==
    \/ NewTreeFromInputAct
    \/ ParseDataIter
    \/ ParseDataSort
    \/ PrintAct
    \/ DataSizeAct
    \/ ObjectWriteAct
    \/ NewTreeAct

Spec == Init /\ [][Next]_vars

\* ------------------------------------------------------------------------
\* Properties of the tree engine
\* ------------------------------------------------------------------------
NonBlank(ls) == SelectSeq(ls, LAMBDA l : ~l.blank)

IsSortedByName(es) ==
    \A i \in 1..(Len(es) - 1) : ~StrLess(es[i + 1].name, es[i].name)

IsLowerHex(s) == \A i \in 1..Len(s) : s[i] \in (48..57) \cup (97..102)

\* The length of the binary encoding of one entry.
EntryLen(e) == Len(e.mode) + 1 + Len(e.name) + 1 + HashLen

RECURSIVE SumEntryLen(_)
SumEntryLen(es) ==
    IF Len(es) = 0 THEN 0 ELSE EntryLen(Head(es)) + SumEntryLen(Tail(es))

\* The binary encoding of a sequence of entries, in their order.
EncodeEntries(es) ==
    Concat([i \in 1..Len(es) |->
               es[i].mode \o <<SP>> \o es[i].name \o <<NUL>>
                          \o DecodeString(es[i].hash).bytes])

\* The names on the lines of a printed tree.
PrintedNames(text) ==
    LET segs == SelectSeq(Split(text, NL), LAMBDA g : Len(g) > 0) IN
    [i \in 1..Len(segs) |->
        [name |-> Slice(segs[i], IndexByte(segs[i], TAB) + 1, Len(segs[i]))]]

\* The lines are "<6-digit mode> <kind> <40-hex hash>\t<name>\n" with a
\* mode of 5 or 6 digits after its zero padding, sorted by name, each
\* naming a stored object of the stated kind.
WellFormedSorted(ls) ==
    /\ \A i \in 1..Len(ls) :
          /\ ~ls[i].blank
          /\ Len(ls[i].mode) = 6
          /\ Len(TrimLeft(ls[i].mode, ZERO)) \in {5, 6}
          /\ ls[i].kind \in {BLOB, TREE}
          /\ Len(ls[i].hash) = 2 * HashLen
          /\ IsLowerHex(ls[i].hash)
          /\ Len(ls[i].name) > 0
          /\ ls[i].hash \in DOMAIN BaseStore
          /\ BaseStore[ls[i].hash].ObjType = ls[i].kind
    /\ IsSortedByName(ls)

\* C1: for every well-formed, name-sorted specification of stored objects,
\* NewTreeFromInput succeeds and Print gives back the specification byte
\* for byte, for the tree built from the text and for the tree re-created
\* by NewTree from the stored object.
C1_TreeRoundTrip ==
    WellFormedSorted(lines) =>
        /\ pc # "panic"
        /\ err = NoErr
        /\ \A o \in Origins : out[o] # <<>> => out[o][1] = input

\* C2: the payload built by NewTreeFromInput holds its entries in
\* name-sorted order, whatever the order of the input lines: it is the
\* encoding of the sorted entries.
C2_PayloadNameSorted ==
    trees["input"] # <<>> =>
        trees["input"][1].Obj.ObjData
            = EncodeEntries(trees["input"][1].Entries)

\* C3: after a successful ParseData the Entries of the tree are in
\* ascending byte-wise order of name, whatever their order in the payload,
\* and Print writes its lines in that order.
C3_EntriesSorted ==
    \A o \in Origins :
        /\ trees[o] # <<>> => IsSortedByName(trees[o][1].Entries)
        /\ out[o] # <<>> => IsSortedByName(PrintedNames(out[o][1]))

\* A tree re-created from a stored payload whose entries are not in name
\* order, and printed.
C3_Witness ==
    /\ origin = "store"
    /\ trees["store"] # <<>>
    /\ out["store"] # <<>>
    /\ Len(trees["store"][1].Entries) >= 2
    /\ trees["store"][1].Obj.ObjData
           # EncodeEntries(trees["store"][1].Entries)

\* The mode of a line as it is written into the payload.
PayloadMode(l) == TrimLeft(l.mode, ZERO)

BadMode(l) == Len(PayloadMode(l)) \notin {5, 6}

\* C7: when the payload holds an entry whose mode text is not 5 or 6
\* characters long, no Tree is returned; and when the entries before it are
\* valid, the error is the Malformed bad-mode error, however many they are.
C7_BadModeIsMalformed ==
    LET ls == NonBlank(lines) IN
    (/\ pc \notin {"start", "parse"}
     /\ TreeObjectFromInput(input).kind = "ok"
     /\ \E i \in 1..Len(ls) : BadMode(ls[i]))
    => /\ trees["input"] = <<>>
       /\ pc = "done"
       /\ LET i == CHOOSE k \in 1..Len(ls) :
                      BadMode(ls[k]) /\ \A j \in 1..(k - 1) : ~BadMode(ls[j])
          IN (\A j \in 1..(i - 1) : ls[j].hash \in DOMAIN store)
                 => err = ErrBadMode /\ Len(Entries) = i - 1

\* A bad mode met after a valid entry has been parsed.
C7_Witness ==
    /\ pc = "done"
    /\ err = ErrBadMode
    /\ Len(Entries) >= 1
    /\ BadMode(NonBlank(lines)[Len(Entries) + 1])

\* C8: DataSize is the length of the binary payload: the sum over the
\* entries of len(mode without leading zeros) + 1 + len(name) + 1 + 20;
\* 36 for the one entry 100644 "testfile"; not the length of the printed
\* text; the same for the tree built from text and for the tree re-parsed
\* from the store.
C8_DataSizeIsPayloadLength ==
    /\ \A o \in Origins :
          sizes[o] # <<>> =>
              LET es == trees[o][1].Entries IN
              /\ sizes[o][1] = SumEntryLen(es)
              /\ \A i \in 1..Len(es) : es[i].mode[1] # ZERO
              /\ Len(es) > 0 => sizes[o][1] # Len(TreePrint(trees[o][1]))
              /\ (Len(es) = 1 /\ es[1].mode = Mode100644 /\ Len(es[1].name) = 8)
                     => sizes[o][1] = 36
    /\ (sizes["input"] # <<>> /\ sizes["store"] # <<>>)
           => sizes["input"] = sizes["store"]

\* DataSize taken of the tree of the test (100644, "testfile") both as
\* built and as re-parsed.
C8_Witness ==
    /\ sizes["input"] = <<36>>
    /\ sizes["store"] = <<36>>
    /\ Len(lines) = 1
    /\ lines[1].name = Str(<<"t", "e", "s", "t", "f", "i", "l", "e">>)

\* C9 as stated: whenever ParseData has ended on a payload built by
\* NewTreeFromInput, the cursor is exactly the payload length and as many
\* entries were parsed as the input has non-empty lines.
C9_CursorLandsOnLength ==
    (obj # <<>> /\ pc \in {"ready", "done"}) =>
        /\ start = Len(obj[1].ObjData)
        /\ Len(Entries) = Len(NonBlank(lines))

C9_Step ==
    (pc = "parse" /\ pc' = "parse") =>
        /\ Len(Entries') = Len(Entries) + 1
        /\ start' = start + EntryLen(Entries'[Len(Entries')])
        /\ start' > start
        /\ start' <= Len(obj[1].ObjData)

C9_Inv ==
    /\ pc \in {"parse", "ready"} =>
          /\ start = SumEntryLen(Entries)
          /\ start <= Len(obj[1].ObjData)
          /\ pc = "parse" =>
                \A k \in 1..Len(Entries) :
                    /\ Entries[k].mode = PayloadMode(NonBlank(lines)[k])
                    /\ Entries[k].hash \in DOMAIN store
    /\ pc = "ready" =>
          /\ start = Len(obj[1].ObjData)
          /\ Len(Entries) = Len(NonBlank(lines))
    /\ (pc = "done" /\ obj # <<>>) =>
          /\ start < Len(obj[1].ObjData)
          /\ Len(Entries) < Len(NonBlank(lines))

\* C9 (amended): every iteration of ParseData that returns no error
\* advances the cursor by exactly the length of the entry it read, so the
\* cursor strictly increases and never passes the payload length; when
\* ParseData returns no error the cursor is exactly the payload length and
\* the number of entries is the number of non-empty input lines; when it
\* returns an error it has stopped before the end, at the offending entry.
C9_ParseDataProgress == [][C9_Step]_vars /\ []C9_Inv

\* ParseData has ended without error after two iterations, on the cursor
\* of a payload built from two lines.
C9_Witness ==
    /\ pc = "ready"
    /\ origin = "input"
    /\ Len(Entries) = 2
    /\ start = Len(obj[1].ObjData)
    /\ start > 0

\* ------------------------------------------------------------------------
\* Checkout
\* ------------------------------------------------------------------------
HashT2 == Rep(Str(<<"a", "2">>), 20)
HashT3 == Rep(Str(<<"a", "3">>), 20)
HashT4 == Rep(Str(<<"a", "4">>), 20)
HashT5 == Rep(Str(<<"a", "5">>), 20)
HashT6 == Rep(Str(<<"a", "6">>), 20)
HashT7 == Rep(Str(<<"a", "7">>), 20)
HashT8 == Rep(Str(<<"a", "8">>), 20)
HashT9 == Rep(Str(<<"a", "9">>), 20)
HashT10 == Rep(Str(<<"a", "0">>), 20)
HashTBad == Rep(Str(<<"b", "a">>), 20)

\* a, d/ (T1), z
TextT2 == Line(Mode100644, BLOB, HashB1, Str(<<"a">>))
          \o Line(Mode040000, TREE, HashT1, Str(<<"d">>))
          \o Line(Mode100755, BLOB, HashB2, Str(<<"z">>))
\* the name a twice
TextT3 == Line(Mode100644, BLOB, HashB1, Str(<<"a">>))
          \o Line(Mode100755, BLOB, HashB2, Str(<<"a">>))
\* d/ (T1), e/ (T5), g
TextT4 == Line(Mode040000, TREE, HashT1, Str(<<"d">>))
          \o Line(Mode040000, TREE, HashT5, Str(<<"e">>))
          \o Line(Mode100644, BLOB, HashB1, Str(<<"g">>))
\* h, m, n
TextT5 == Line(Mode100644, BLOB, HashB2, Str(<<"h">>))
          \o Line(Mode100755, BLOB, HashB1, Str(<<"m">>))
          \o Line(Mode100644, BLOB, HashB1, Str(<<"n">>))
\* blobs under a 5-character mode and under a mode that is not octal
TextT6 == Line(Str(<<"4", "0", "7", "5", "5">>), BLOB, HashB1, Str(<<"x">>))
          \o Line(Str(<<"1", "0", "0", "6", "4", "8">>), BLOB, HashB2,
                  Str(<<"y">>))
\* an entry that is a commit
TextT7 == Line(Str(<<"1", "6", "0", "0", "0", "0">>), COMMIT, HashC1,
               Str(<<"s">>))
\* a payload that is not in name order
TextT8 == Line(Mode100755, BLOB, HashB2, Str(<<"z">>))
          \o Line(Mode100644, BLOB, HashB1, Str(<<"a">>))
\* a, b/ (a tree object with a bad mode), c
TextT9 == Line(Mode100644, BLOB, HashB1, Str(<<"a">>))
          \o Line(Mode040000, TREE, HashTBad, Str(<<"b">>))
          \o Line(Mode100644, BLOB, HashB2, Str(<<"c">>))

\* a, m (no such object)
TextT10 == Line(Mode100644, BLOB, HashB1, Str(<<"a">>))
           \o Line(Mode100644, BLOB, HashMissing, Str(<<"m">>))

PayloadTBad ==
    Str(<<"6", "4", "4", " ", "a", "nul">>) \o DecodeString(HashB1).bytes

TreeObjects ==
    { <<HashT2, TextT2>>, <<HashT3, TextT3>>, <<HashT4, TextT4>>,
      <<HashT5, TextT5>>, <<HashT6, TextT6>>, <<HashT7, TextT7>>,
      <<HashT8, TextT8>>, <<HashT9, TextT9>>, <<HashT10, TextT10>> }

FullStore ==
    [h \in DOMAIN BaseStore \cup {t[1] : t \in TreeObjects} \cup {HashTBad} |->
        IF h \in DOMAIN BaseStore THEN BaseStore[h]
        ELSE IF h = HashTBad THEN NewObject(TREE, PayloadTBad)
        ELSE NewObject(TREE,
                 Payload((CHOOSE t \in TreeObjects : t[1] = h)[2]))]

\* The trees and one blob a checkout is asked for.
Roots == {HashT1, HashB1, HashTBad} \cup {t[1] : t \in TreeObjects}

ErrExist == "file exists"
ErrIsDir == "is a directory"
ErrNoEnt == "no such file or directory"
ErrIO == "input/output error"

\* os.ModePerm
ModePerm == 511

\* The directory Checkout is given.
Target == <<Str(<<"o", "u", "t">>)>>

Dir == [kind |-> "dir", data |-> <<>>, perm |-> ModePerm]
File(data, perm) == [kind |-> "file", data |-> data, perm |-> perm]

FsWith(f, path, node) ==
    [q \in DOMAIN f \cup {path} |-> IF q = path THEN node ELSE f[q]]

EmptyTarget == [q \in {Target} |-> Dir]

\* The states of the target directory before the checkout.
FsInits ==
    { EmptyTarget,
      FsWith(EmptyTarget, Append(Target, Str(<<"d">>)),
             File(Str(<<"o", "l", "d">>), 384)),
      FsWith(EmptyTarget, Append(Target, Str(<<"a">>)), Dir),
      FsWith(EmptyTarget, Append(Target, Str(<<"a">>)),
             File(Str(<<"o", "l", "d">>), 384)) }

\* The ways the filesystem call of one step may fail by itself.
Faults == {"none", "open", "write"}

\* filepath.Join(path, name), for a name that is one plain path segment.
Join(path, name) == Append(path, name)

Parent(path) == SubSeq(path, 1, Len(path) - 1)

IsDir(f, path) == path \in DOMAIN f /\ f[path].kind = "dir"

\* os.Mkdir(path, os.ModePerm)
Mkdir(f, path, fault) ==
    IF fault # "none" THEN [err |-> ErrIO, fs |-> f]
    ELSE IF path \in DOMAIN f THEN [err |-> ErrExist, fs |-> f]
    ELSE IF ~IsDir(f, Parent(path)) THEN [err |-> ErrNoEnt, fs |-> f]
    ELSE [err |-> NoErr, fs |-> FsWith(f, path, Dir)]

\* ioutil.WriteFile(path, data, perm): create or truncate, then write; perm
\* is used only when the file is created.
WriteFile(f, path, data, perm, fault) ==
    LET made(d) == IF path \in DOMAIN f
                   THEN FsWith(f, path, File(d, f[path].perm))
                   ELSE FsWith(f, path, File(d, perm))
    IN  IF fault = "open" THEN [err |-> ErrIO, fs |-> f]
        ELSE IF IsDir(f, path) THEN [err |-> ErrIsDir, fs |-> f]
        ELSE IF ~IsDir(f, Parent(path)) THEN [err |-> ErrNoEnt, fs |-> f]
        ELSE IF fault = "write" THEN [err |-> ErrIO, fs |-> made(<<>>)]
        ELSE [err |-> NoErr, fs |-> made(data)]

IsOctal(b) == b \in 48..55

RECURSIVE OctVal(_)
OctVal(s) ==
    IF Len(s) = 0 THEN 0
    ELSE 8 * OctVal(SubSeq(s, 1, Len(s) - 1)) + (s[Len(s)] - 48)

\* strconv.ParseInt(s, 8, 32), its error dropped: 0 on a syntax error.
\* Checkout gives it at most three characters, so no value is out of range.
ParseInt8(s) ==
    LET signed == Len(s) > 0 /\ s[1] \in {43, 45}
        digits == IF signed THEN Tail(s) ELSE s
    IN  IF Len(digits) = 0 \/ \E i \in 1..Len(digits) : ~IsOctal(digits[i])
        THEN 0
        ELSE IF signed /\ s[1] = 45 THEN -OctVal(digits) ELSE OctVal(digits)

\* os.FileMode(mode): the conversion of an int64 to uint32, of which the
\* low 30 bits are kept here.
FileMode(mode) == mode % 1073741824

\* The whole mode text parsed, its first three characters not stripped.
BlobPermWhole(mode) == FileMode(ParseInt8(mode))

\* The permission Checkout passes for a blob entry of the given mode text.
BlobPerm(mode) == FileMode(ParseInt8(Slice(mode, 3, Len(mode))))

\* NewBlob: only an object of type blob makes a Blob.
NewBlob(o) ==
    IF o.ObjType # BLOB THEN [err |-> ErrBadType, blob |-> <<>>]
    ELSE [err |-> NoErr, blob |-> <<[Obj |-> o]>>]

\* Nothing written for a blob.
BlobDataNone(blob) == <<>>

\* The bytes Checkout writes for a blob.
BlobData(blob) == blob.Obj.ObjData

\* The error of the recursive call dropped.
ChildFailedIgnored(e) == FALSE

\* The test Checkout makes of what the recursive call returned.
ChildFailed(e) == e # NoErr

Frame(entries, path) == [entries |-> entries, i |-> 1, path |-> path]

Top == stack[Len(stack)]

Pop == SubSeq(stack, 1, Len(stack) - 1)

\* The loop of the active call moves to its next entry.
Advance == [stack EXCEPT ![Len(stack)].i = @ + 1]

InitCheckout ==
    /\ pc = "co_start"
    /\ store = FullStore
    /\ TreeIdle
    /\ root \in Roots
    /\ stack = <<>>
    /\ fs \in FsInits
    /\ retErr = NoErr
    /\ lastWrite = <<>>
    /\ CatFileIdle

\* The caller: load the object, make the tree, call Checkout(Target).
CheckoutCall ==
    /\ pc = "co_start"
    /\ LET r == NewTree(store, ObjectParse(store, root).obj[1]) IN
       /\ pc' = IF r.kind = "panic" THEN "panic"
                ELSE IF r.kind = "err" THEN "co_done" ELSE "co_run"
       /\ retErr' = IF r.kind = "err" THEN r.err ELSE retErr
       /\ stack' = IF r.kind = "ok"
                   THEN <<Frame(r.tree.Entries, Target)>> ELSE stack
    /\ UNCHANGED <<store, treeVars, root, fs, lastWrite, catVars>>

\* What one iteration of the loop of Checkout does with entry e under
\* fault: the filesystem after it, the error it returns (if any), the
\* frame of the recursive call (if any), the WriteFile call (if any).
CheckoutIter(st, f, path, entry, fault) ==
    LET createPath == Join(path, entry.name)
        r == ObjectParse(st, entry.hash)
        fail(e, g) == [kind |-> "err", err |-> e, fs |-> g,
                       call |-> <<>>, write |-> <<>>]
    IN  IF r.err # NoErr THEN fail(r.err, f)
        ELSE IF entry.objType = TREE
        THEN LET m == Mkdir(f, createPath, fault)
                 t == NewTree(st, r.obj[1])
             IN  IF m.err # NoErr THEN fail(m.err, f)
                 ELSE IF t.kind = "panic"
                 THEN [kind |-> "panic", err |-> NoErr, fs |-> m.fs,
                       call |-> <<>>, write |-> <<>>]
                 ELSE IF t.kind = "err" THEN fail(t.err, m.fs)
                 ELSE [kind |-> "call", err |-> NoErr, fs |-> m.fs,
                       call |-> <<Frame(t.tree.Entries, createPath)>>,
                       write |-> <<>>]
        ELSE LET b == NewBlob(r.obj[1]) IN
             IF b.err # NoErr THEN fail(b.err, f)
             ELSE LET perm == BlobPerm(entry.mode)
                      w == WriteFile(f, createPath, BlobData(b.blob[1]),
                                     perm, fault)
                      wr == <<[path |-> createPath, perm |-> perm,
                               mode |-> entry.mode]>>
                  IN [kind |-> IF w.err # NoErr THEN "err" ELSE "next",
                      err |-> w.err, fs |-> w.fs, call |-> <<>>,
                      write |-> wr]

\* One iteration of the loop of the innermost call of Checkout.
CheckoutEntry ==
    /\ pc = "co_run"
    /\ Top.i <= Len(Top.entries)
    /\ \E fault \in Faults :
          LET r == CheckoutIter(store, fs, Top.path, Top.entries[Top.i],
                                fault)
          IN /\ fs' = r.fs
             /\ lastWrite' = IF r.write # <<>> THEN r.write ELSE lastWrite
             /\ pc' = IF r.kind = "panic" THEN "panic"
                      ELSE IF r.kind = "err" THEN "co_return" ELSE "co_run"
             /\ retErr' = IF r.kind = "err" THEN r.err ELSE retErr
             /\ stack' = IF r.kind = "err" THEN Pop
                         ELSE IF r.kind = "call" THEN stack \o r.call
                         ELSE IF r.kind = "next" THEN Advance
                         ELSE stack
    /\ UNCHANGED <<store, treeVars, root, catVars>>

\* The loop of the innermost call has ended: it returns nil.
CheckoutLoopEnd ==
    /\ pc = "co_run"
    /\ Top.i > Len(Top.entries)
    /\ stack' = Pop
    /\ retErr' = NoErr
    /\ pc' = "co_return"
    /\ UNCHANGED <<store, treeVars, root, fs, lastWrite, catVars>>

\* A call of Checkout has returned: to the caller of the checkout, or to
\* the loop that called it, which returns the error or goes on.
CheckoutReturn ==
    /\ pc = "co_return"
    /\ pc' = IF stack = <<>> THEN "co_done"
             ELSE IF ChildFailed(retErr) THEN "co_return" ELSE "co_run"
    /\ stack' = IF stack = <<>> THEN stack
                ELSE IF ChildFailed(retErr) THEN Pop ELSE Advance
    /\ UNCHANGED <<store, treeVars, root, fs, retErr, lastWrite, catVars>>

NextCheckout ==
    \/ CheckoutCall
    \/ CheckoutEntry
    \/ CheckoutLoopEnd
    \/ CheckoutReturn

SpecCheckout == InitCheckout /\ [][NextCheckout]_vars

\* ------------------------------------------------------------------------
\* Properties of Checkout
\* ------------------------------------------------------------------------
EntriesOf(h) == NewTree(store, store[h]).tree.Entries

RECURSIVE Materialized(_, _)
\* Every entry of the tree at address h is under path: a directory holding
\* the child tree for a tree entry, a file with the blob's bytes for a blob.
Materialized(h, path) ==
    \A k \in 1..Len(EntriesOf(h)) :
        LET e == EntriesOf(h)[k]
            q == Join(path, e.name)
        IN  /\ q \in DOMAIN fs
            /\ IF e.objType = TREE
               THEN fs[q].kind = "dir" /\ Materialized(e.hash, q)
               ELSE fs[q].kind = "file" /\ fs[q].data = store[e.hash].ObjData

RECURSIVE DistinctNames(_)
\* No two entries of one tree share a name, at any level under h.
DistinctNames(h) ==
    LET es == EntriesOf(h) IN
    /\ \A i, j \in 1..Len(es) : i # j => es[i].name # es[j].name
    /\ \A i \in 1..Len(es) : es[i].objType = TREE => DistinctNames(es[i].hash)

CheckoutSucceeded == pc = "co_done" /\ retErr = NoErr

\* C4 as stated: after a successful Checkout every entry is materialized,
\* each blob entry as a file holding that blob's bytes.
C4_CheckoutMaterializes ==
    CheckoutSucceeded => Materialized(root, Target)

\* C4 (amended): after a successful Checkout of a tree in which no two
\* entries of one directory share a name, every entry is materialized:
\* each tree entry as a directory holding the checked-out child tree, each
\* blob entry as a file holding the blob's bytes as stored.
C4_CheckoutMaterializesDistinct ==
    (CheckoutSucceeded /\ DistinctNames(root)) => Materialized(root, Target)

\* A successful checkout of a tree with two files and a directory.
C4_Witness ==
    /\ CheckoutSucceeded
    /\ root = HashT2
    /\ IsDir(fs, Join(Target, Str(<<"d">>)))
    /\ fs[Join(Join(Target, Str(<<"d">>)), Str(<<"f">>))].data = DataB1
    /\ fs[Join(Target, Str(<<"z">>))].data = DataB2

C5_Step ==
    /\ retErr # NoErr =>
          /\ fs' = fs
          /\ lastWrite' = lastWrite
          /\ retErr' = retErr
          /\ pc' \in {"co_return", "co_done"}
          /\ Len(stack') <= Len(stack)
    /\ \A q \in DOMAIN fs : q \in DOMAIN fs' /\ fs'[q].kind = fs[q].kind

\* C5: once the processing of an entry has failed, every active call of
\* Checkout returns that same error without touching the filesystem again,
\* so nothing after the failing entry is materialized at any level; and no
\* step of a checkout removes a file or directory.
C5_FailureAborts ==
    [][C5_Step]_vars /\ [](pc = "co_done" => stack = <<>>)

\* A checkout that failed two levels down (writing e/m): d, d/f, e and e/h
\* are in place, e/n and g were never made.
C5_Witness ==
    /\ pc = "co_done"
    /\ root = HashT4
    /\ retErr = ErrIO
    /\ lastWrite # <<>>
    /\ lastWrite[1].path = Join(Join(Target, Str(<<"e">>)), Str(<<"m">>))
    /\ Join(Join(Target, Str(<<"d">>)), Str(<<"f">>)) \in DOMAIN fs
    /\ Join(Join(Target, Str(<<"e">>)), Str(<<"h">>)) \in DOMAIN fs
    /\ Join(Join(Target, Str(<<"e">>)), Str(<<"n">>)) \notin DOMAIN fs
    /\ Join(Target, Str(<<"g">>)) \notin DOMAIN fs

\* A mode text of octal digits read as a number.
ModeNumber(mode) ==
    LET n == Len(mode)
        pow8(k) == CASE k = 0 -> 1 [] k = 1 -> 8 [] k = 2 -> 64
                     [] k = 3 -> 512 [] k = 4 -> 4096 [] k = 5 -> 32768
        RECURSIVE sum(_)
        sum(i) == IF i > n THEN 0
                  ELSE (mode[i] - 48) * pow8(n - i) + sum(i + 1)
    IN sum(1)

AllOctal(mode) == \A i \in 1..Len(mode) : mode[i] \in 48..55

\* C6 as stated: for every accepted mode text (5 or 6 characters) the
\* permission passed to WriteFile is the low 9 bits of the mode text read
\* as an octal number.
C6_PermIsLow9Bits ==
    (lastWrite # <<>> /\ AllOctal(lastWrite[1].mode)) =>
        lastWrite[1].perm = ModeNumber(lastWrite[1].mode) % 512

\* C6 (amended): for a mode text of 6 octal digits the permission passed
\* to WriteFile is the low 9 bits of the mode read as an octal number; for
\* a mode text of 5 octal digits it is the low 6 bits only.
C6_PermOfSixDigitMode ==
    (lastWrite # <<>> /\ AllOctal(lastWrite[1].mode)) =>
        /\ Len(lastWrite[1].mode) = 6 =>
              lastWrite[1].perm = ModeNumber(lastWrite[1].mode) % 512
        /\ Len(lastWrite[1].mode) = 5 =>
              lastWrite[1].perm = ModeNumber(lastWrite[1].mode) % 64

\* WriteFile was called for a blob entry of mode 100755 with 0755.
C6_Witness ==
    /\ lastWrite # <<>>
    /\ lastWrite[1].mode = Mode100755
    /\ lastWrite[1].perm = 493
    /\ lastWrite[1].path \in DOMAIN fs

\* ------------------------------------------------------------------------
\* cat-file
\* ------------------------------------------------------------------------
MaxArgs == 3

MINUS == 45
EQUALS == 61

\* The words a command line is made of.
Words ==
    { Str(<<"-", "t">>), Str(<<"-", "s">>), Str(<<"-", "p">>),
      Str(<<"-", "-">>), Str(<<"-", "x">>),
      Str(<<"-", "s", "=", "f", "a", "l", "s", "e">>),
      HashB1, HashT1, HashC1, HashMissing }

ArgLists == UNION {[1..n -> Words] : n \in 0..MaxArgs}

\* The flags NewCatFileCommand defines, by name.
FlagT == Str(<<"t">>)
FlagS == Str(<<"s">>)
FlagP == Str(<<"p">>)

\* strconv.ParseBool
ParseBool(v) ==
    IF v \in { Str(<<"1">>), Str(<<"t">>), Str(<<"T">>),
               Str(<<"T", "R", "U", "E">>), Str(<<"t", "r", "u", "e">>),
               Str(<<"T", "r", "u", "e">>) }
    THEN [err |-> FALSE, val |-> TRUE]
    ELSE IF v \in { Str(<<"0">>), Str(<<"f">>), Str(<<"F">>),
                    Str(<<"F", "A", "L", "S", "E">>),
                    Str(<<"f", "a", "l", "s", "e">>),
                    Str(<<"F", "a", "l", "s", "e">>) }
    THEN [err |-> FALSE, val |-> FALSE]
    ELSE [err |-> TRUE, val |-> FALSE]

\* The variable a flag name is bound to by BoolVar.
SetFlag(c, name, val) ==
    IF name = FlagT THEN [c EXCEPT !.getType = val]
    ELSE IF name = FlagS THEN [c EXCEPT !.getSize = val]
    ELSE [c EXCEPT !.printObj = val]

\* One step of cmd.fs.Parse on the words left: a flag was read ("flag"),
\* the flags have ended ("stop"), or the flag set, made with
\* flag.ExitOnError, ends the process ("exit").
ParseOne(c, as) ==
    IF Len(as) = 0 THEN [kind |-> "stop", cmd |-> c, args |-> as]
    ELSE LET s == as[1]
             numMinuses == IF Len(s) >= 2 /\ s[2] = MINUS THEN 2 ELSE 1
             full == Slice(s, numMinuses, Len(s))
             eq == {i \in 2..Len(full) : full[i] = EQUALS}
             at == IF eq = {} THEN 0
                   ELSE CHOOSE i \in eq : \A j \in eq : i <= j
             name == IF at = 0 THEN full ELSE Slice(full, 0, at - 1)
             value == IF at = 0 THEN <<>> ELSE Slice(full, at, Len(full))
             b == ParseBool(value)
         IN  IF Len(s) < 2 \/ s[1] # MINUS
             THEN [kind |-> "stop", cmd |-> c, args |-> as]
             ELSE IF numMinuses = 2 /\ Len(s) = 2
             THEN [kind |-> "stop", cmd |-> c, args |-> Tail(as)]
             ELSE IF Len(full) = 0 \/ full[1] \in {MINUS, EQUALS}
             THEN [kind |-> "exit", cmd |-> c, args |-> as]
             ELSE IF name \notin {FlagT, FlagS, FlagP}
             THEN [kind |-> "exit", cmd |-> c, args |-> Tail(as)]
             ELSE IF at # 0 /\ b.err
             THEN [kind |-> "exit", cmd |-> c, args |-> Tail(as)]
             ELSE [kind |-> "flag",
                   cmd |-> SetFlag(c, name, IF at = 0 THEN TRUE ELSE b.val),
                   args |-> Tail(as)]

RECURSIVE ParseArgs(_, _)
\* cmd.fs.Parse(args): the flags set and the words left as arguments.
ParseArgs(c, as) ==
    LET r == ParseOne(c, as) IN
    IF r.kind = "flag" THEN ParseArgs(r.cmd, r.args) ELSE r

ErrMissingObject == "Error: Missing <object> argument"
ErrNoSwitch == "Error: one of '-t', '-s' or '-p' must be provided"
ErrTS == "Error: switch 't' and 's' are incompatible"
ErrSP == "Error: switch 's' and 'p' are incompatible"
ErrPT == "Error: switch 'p' and 't' are incompatible"

\* The checks of Init without that of -s with -p.
InitCheckNoSP(c, nArg) ==
    IF nArg < 1 THEN ErrMissingObject
    ELSE IF ~(c.getType \/ c.getSize \/ c.printObj) THEN ErrNoSwitch
    ELSE IF c.getType /\ c.getSize THEN ErrTS
    ELSE IF c.printObj /\ c.getType THEN ErrPT
    ELSE NoErr

\* The checks of Init after the flags are parsed: the error it returns.
InitCheck(c, nArg) ==
    IF nArg < 1 THEN ErrMissingObject
    ELSE IF ~(c.getType \/ c.getSize \/ c.printObj) THEN ErrNoSwitch
    ELSE IF c.getType /\ c.getSize THEN ErrTS
    ELSE IF c.getSize /\ c.printObj THEN ErrSP
    ELSE IF c.printObj /\ c.getType THEN ErrPT
    ELSE NoErr

InitCatFile ==
    /\ pc = "cat_start"
    /\ store = BaseStore
    /\ TreeIdle
    /\ CheckoutIdle
    /\ args \in ArgLists
    /\ cmd = NewCatFileCommand
    /\ initErr = NoErr
    /\ stdout = <<>>

\* CatFileCommand.Init(args)
CatFileInit ==
    /\ pc = "cat_start"
    /\ LET r == ParseArgs(cmd, args)
           e == InitCheck(r.cmd, Len(r.args))
       IN /\ pc' = IF r.kind = "exit" THEN "cat_exit" ELSE "cat_inited"
          /\ initErr' = IF r.kind = "exit" THEN initErr ELSE e
          /\ cmd' = IF r.kind # "exit" /\ e = NoErr
                    THEN [r.cmd EXCEPT !.revision = r.args[1]]
                    ELSE r.cmd
    /\ UNCHANGED <<store, treeVars, coVars, args, stdout>>

\* repo.ObjectFind for the revisions used here: a full address resolves to
\* itself when the store holds it.
ObjectFind(st, revision) ==
    IF revision \in DOMAIN st THEN [err |-> NoErr, hash |-> revision]
    ELSE [err |-> ErrNotFound, hash |-> <<>>]

\* The typed view of an object: what its Print, Type and DataSize give.
GitTypeOf(st, o) ==
    IF o.ObjType = TREE
    THEN LET t == NewTree(st, o) IN
         IF t.kind # "ok" THEN [ok |-> FALSE]
         ELSE [ok |-> TRUE, Show |-> TreePrint(t.tree),
               Type |-> Type(t.tree), DataSize |-> DataSize(t.tree)]
    ELSE [ok |-> TRUE, Show |-> o.ObjData, Type |-> o.ObjType,
          DataSize |-> Len(o.ObjData)]

\* What Execute prints for a typed view under the flags of the command.
ExecuteOutput(c, g) ==
    IF c.printObj THEN <<[what |-> "Print", val |-> g.Show]>>
    ELSE IF c.getType THEN <<[what |-> "Type", val |-> g.Type]>>
    ELSE IF c.getSize THEN <<[what |-> "DataSize", val |-> g.DataSize]>>
    ELSE <<>>

\* CatFileCommand.Execute(); util.Check ends the process on an error.
CatFileExecute ==
    /\ pc = "cat_inited"
    /\ LET f == ObjectFind(store, cmd.revision)
           r == ObjectParse(store, f.hash)
           g == GitTypeOf(store, r.obj[1])
           failed == f.err # NoErr \/ r.err # NoErr \/ ~g.ok
       IN /\ pc' = IF failed THEN "exec_exit" ELSE "cat_done"
          /\ stdout' = IF failed THEN stdout
                       ELSE stdout \o ExecuteOutput(cmd, g)
    /\ UNCHANGED <<store, treeVars, coVars, args, cmd, initErr>>

NextCatFile ==
    \/ CatFileInit
    \/ CatFileExecute

SpecCatFile == InitCatFile /\ [][NextCatFile]_vars

\* ------------------------------------------------------------------------
\* Properties of cat-file
\* ------------------------------------------------------------------------
FlagsSet(c) ==
    (IF c.getType THEN 1 ELSE 0) + (IF c.getSize THEN 1 ELSE 0)
        + (IF c.printObj THEN 1 ELSE 0)

\* The words of a command line that follow its flags.
Positional(as) == ParseArgs(NewCatFileCommand, as).args

====
